---- MODULE Spec2Model ----
(***************************************************************************)
(* Threshold detection (MigrationDetector, core/src/index.ts) and position *)
(* lifecycle (TransitionLogic, core/src/transition-logic/TransitionLogic.ts)*)
(* of the Four.Meme migration sniper.                                      *)
(*                                                                         *)
(* Every async method is cut at the awaits that wait for the chain (RPC    *)
(* reads, swaps, block waits); the synchronous code between two such       *)
(* awaits is one atomic step, as on the single-threaded event loop.        *)
(* setInterval fires a new pass whether or not the previous one returned.  *)
(*                                                                         *)
(* Units: amounts in 0.001 BNB, market caps in 0.1 BNB, time in half hours.*)
(***************************************************************************)
EXTENDS Integers, Sequences, FiniteSets, TLC

\* ------------------------------------------------------------------ bounds
MaxPositions == 2      \* positions ever created (positionCounter)
MaxHandlers  == 2      \* handleMigrationEvent calls in flight
MaxMonitors  == 2      \* monitorPositions passes in flight
MaxNow       == 3      \* largest clock reading (Date.now)
MaxListeners == 1      \* 'migrationDetected' listeners registered by initialize()
MaxTimers    == 1      \* live setInterval timers counted (saturating)
MaxEmit      == 2      \* event counters saturate here
MaxFails     == 3      \* consecutive failed sells counted (saturating)
\* SpecExit explores monitoring and selling: overlapping passes, one position
ExitPositions == 1
ExitHandlers  == 1
MaxChecks    == 2      \* checkAllTokens passes in flight
MaxObjects   == 2      \* TokenData objects ever created
MaxBlock     == 4      \* highest block number of the chain

NoPrice == 0 - 1
NoTime  == 0 - 1
NoAlert == 0 - 1
NoSnapshot == [keys |-> <<>>, values |-> <<>>]
Idle    == [pc |-> "idle"]

Min(a, b) == IF a < b THEN a ELSE b
Sat(n)    == Min(n + 1, MaxEmit)

\* ------------------------------------------------- TransitionLogic config
\* loadTransitionConfig: the two built-in strategies
strategies ==
  [n \in {"aggressive", "conservative"} |->
     IF n = "aggressive"
     THEN [name |-> "aggressive", buyAmount |-> 100, sellThreshold |-> 50,
           stopLossThreshold |-> 20, maxHoldTime |-> 2,
           enablePartialSells |-> TRUE, partialSellPercentages |-> <<25, 50, 75>>]
     ELSE [name |-> "conservative", buyAmount |-> 50, sellThreshold |-> 20,
           stopLossThreshold |-> 10, maxHoldTime |-> 1,
           enablePartialSells |-> FALSE, partialSellPercentages |-> <<>>]]

\* MAX_CONCURRENT_TRADES / MAX_TOTAL_EXPOSURE as configured by the operator
\* (defaults 5 and 1 BNB = 1000); the remaining options keep their defaults.
ConfigChoices == {<<1, 1000>>, <<2, 150>>}

loadTransitionConfig(c) ==
  [defaultStrategy     |-> "aggressive",
   maxConcurrentTrades |-> c[1],
   maxTotalExposure    |-> c[2],
   enableProfitTaking  |-> TRUE,
   enableStopLosses    |-> TRUE]

\* amountOut of the buy swap and the scale of MigrationSwapData.tokenPrice
TokenAmount == 10 * 10
PriceScale  == 10 * 10
\* tokenPrice values the pool can report (0 is also what a failed read yields)
Prices == {0, 80, 125, 150}

VARIABLES
  transitionConfig,    \* TransitionLogic.transitionConfig
  tlRunning,           \* TransitionLogic.isRunning
  listeners,           \* handleMigrationEvent listeners on 'migrationDetected'
  monitorTimers,       \* setInterval timers created by startPositionMonitoring
  positions,           \* the TradePosition objects, by id (shared references)
  activePositions,     \* keys of the activePositions Map, in insertion order
  completedPositions,  \* keys of the completedPositions Map
  positionCounter,     \* TransitionLogic.positionCounter
  handlers,            \* handleMigrationEvent calls in flight, per await
  monitors,            \* monitorPositions passes in flight
  now,                 \* Date.now()
  transitionExecuted,  \* 'transitionExecuted' events emitted
  positionClosed,      \* 'positionClosed' events emitted, per position
  sellFailures,        \* consecutive failed sells, per position (history)
  logged,              \* refusals and failed transitions the logger has reported
  firedRungs,          \* ladder rungs that have started an exit, per position (history)
  criticalAt,          \* positions opened or being opened when the latest CRITICAL riskAlert came (history)
  returnedPositions    \* the Map the latest getActivePositions() returned, as the caller holds it

tradeVars == <<transitionConfig, tlRunning, listeners, monitorTimers, positions,
               activePositions, completedPositions, positionCounter, handlers,
               monitors, now, transitionExecuted, positionClosed, sellFailures, logged,
               firedRungs, criticalAt, returnedPositions>>

VARIABLES
  migrationConfig,     \* MigrationDetector.migrationConfig
  mdRunning,           \* MigrationDetector.isRunning
  checkInterval,       \* MigrationDetector.checkInterval is a live timer
  tokenObjects,        \* the TokenData objects, by id (shared references)
  monitoredTokens,     \* entries of the monitoredTokens Map, in insertion order
  migrationStatuses,   \* currentMarketCap of the migrationStatuses entry, per address
  predictiveAnalyses,  \* keys of the predictiveAnalyses Map
  pendingAdds,         \* addToken calls awaiting fetchTokenData
  checks,              \* checkAllTokens passes in flight
  blockNumber,         \* provider.getBlockNumber()
  migrationDetected,   \* 'migrationDetected' events emitted, per address
  qualifying,          \* consecutive sampled market caps >= threshold, per address (history)
  tokenAdded,          \* 'tokenAdded' events emitted, per address
  tokenRemoved,        \* 'tokenRemoved' events emitted, per address
  addTokenPromise,     \* the promise of the latest addToken call, per address
  statusUpdate,        \* lastUpdated of the latest 'statusUpdate' event, per address
  bondingCurveData,    \* what getBondingCurveMarketCap answers
  migrationProbability,      \* result of the latest calculateMigrationProbability
  estimatedTimeToMigration   \* results of estimateTimeToMigration, per distance

detectorVars == <<migrationConfig, mdRunning, checkInterval, tokenObjects,
                  monitoredTokens, migrationStatuses, predictiveAnalyses,
                  pendingAdds, checks, blockNumber, migrationDetected, qualifying,
                  tokenAdded, tokenRemoved, addTokenPromise, statusUpdate,
                  bondingCurveData, migrationProbability,
                  estimatedTimeToMigration>>

\* the valuation figures of calculateMigrationStatus
estimateVars == <<bondingCurveData, migrationProbability, estimatedTimeToMigration>>

vars == <<tradeVars, detectorVars>>

PositionIds == 1..MaxPositions
MonitorIds  == 1..MaxMonitors

lifecycleVars == <<transitionConfig, tlRunning, listeners, monitorTimers>>
eventVars     == <<transitionExecuted, positionClosed>>

\* logger.warn of line 147 and logger.error of line 171
SkippedLog == "Maximum concurrent trades reached, skipping migration"
FailedLog  == "Transition failed"

\* a JS Map's keys as the sequence of its live entries in insertion order; an
\* iterator is the index of the entry it last returned, so deleting an entry
\* at or before it moves it down by one and an appended entry is still visited
Range(s) == {s[i] : i \in 1..Len(s)}
IndexOf(s, x) == CHOOSE i \in 1..Len(s) : s[i] = x
MapHas(s, k) == k \in Range(s)
MapSet(s, k) == IF MapHas(s, k) THEN s ELSE Append(s, k)
MapDelete(s, k) ==
  IF MapHas(s, k)
  THEN SubSeq(s, 1, IndexOf(s, k) - 1) \o SubSeq(s, IndexOf(s, k) + 1, Len(s))
  ELSE s
IterAfterDelete(cursor, s, k) ==
  IF MapHas(s, k) /\ cursor >= IndexOf(s, k) THEN cursor - 1 ELSE cursor

\* ------------------------------------------------------------ TradePosition
\* createPosition: the object stored in activePositions
createPosition(t) ==
  [strategy |-> strategies[transitionConfig.defaultStrategy].name,
   entryAmount |-> strategies[transitionConfig.defaultStrategy].buyAmount,
   entryTime |-> t, currentPrice |-> NoPrice, status |-> "ACTIVE",
   exitPrice |-> NoPrice, exitTime |-> NoTime, exitReason |-> "none"]

\* updatePositionStatus: currentValue, profitLoss, profitLossPercent
CurrentValue(price) == (TokenAmount * price) \div PriceScale
ProfitLoss(pos) == CurrentValue(pos.currentPrice) - pos.entryAmount
ProfitLossPercent(pos) == (ProfitLoss(pos) * 100) \div pos.entryAmount

\* position.partialSells?.includes(percentage): TradePosition has no such field
\* and nothing assigns it
partialSellsIncludes(pos, percentage) ==
  IF "partialSells" \in DOMAIN pos THEN percentage \in pos.partialSells ELSE FALSE

\* the rungs of the ladder that checkExitConditions would fire, in ladder order
PartialSellDue(pos, strategy) ==
  SelectSeq(strategy.partialSellPercentages,
            LAMBDA percentage : /\ ProfitLossPercent(pos) >= percentage
                                /\ ~partialSellsIncludes(pos, percentage))

PartialSellReason(percentage) ==
  CASE percentage = 25 -> "Partial sell at 25% profit"
    [] percentage = 50 -> "Partial sell at 50% profit"
    [] OTHER           -> "Partial sell at 75% profit"

\* the ladder rung a reason of checkExitConditions names, if it names one
RungOf(reason) ==
  {percentage \in {25, 50, 75} : reason = PartialSellReason(percentage)}

\* checkExitConditions(position) at time t
checkExitConditions(pos, t) ==
  IF pos.strategy \notin DOMAIN strategies
  THEN [exit |-> TRUE, reason |-> "Strategy not found"]
  ELSE LET strategy == strategies[pos.strategy] IN
    IF /\ transitionConfig.enableStopLosses
       /\ ProfitLossPercent(pos) < 0 - strategy.stopLossThreshold
    THEN [exit |-> TRUE, reason |-> "Stop loss triggered"]
    ELSE IF /\ transitionConfig.enableProfitTaking
            /\ ProfitLossPercent(pos) >= strategy.sellThreshold
    THEN [exit |-> TRUE, reason |-> "Profit threshold reached"]
    ELSE IF t - pos.entryTime > strategy.maxHoldTime
    THEN [exit |-> TRUE, reason |-> "Max hold time reached"]
    ELSE IF strategy.enablePartialSells /\ PartialSellDue(pos, strategy) # <<>>
    THEN [exit |-> TRUE, reason |-> PartialSellReason(Head(PartialSellDue(pos, strategy)))]
    ELSE [exit |-> FALSE, reason |-> "none"]

\* ------------------------------------------------------------------ Init
\* the state after construction, under configuration c
TradeInit(c) ==
  /\ transitionConfig = loadTransitionConfig(c)
  /\ tlRunning = FALSE
  /\ listeners = 0
  /\ monitorTimers = 0
  /\ positions = <<>>
  /\ activePositions = <<>>
  /\ completedPositions = {}
  /\ positionCounter = 0
  /\ handlers = [swapData |-> 0, buy |-> 0]
  /\ monitors = [m \in MonitorIds |-> Idle]
  /\ now = 0
  /\ transitionExecuted = 0
  /\ positionClosed = [p \in PositionIds |-> 0]
  /\ sellFailures = [p \in PositionIds |-> 0]
  /\ firedRungs = [p \in PositionIds |-> {}]
  /\ criticalAt = NoAlert
  /\ returnedPositions = NoSnapshot
  /\ logged = {}

\* ------------------------------------------------ TransitionLogic lifecycle
\* initialize(): registers handleMigrationEvent on 'migrationDetected'
\* maxListeners bounds the listeners registered
registerListener(maxListeners) ==
  /\ listeners < maxListeners
  /\ listeners' = listeners + 1
  /\ UNCHANGED <<transitionConfig, tlRunning, monitorTimers, positions,
                 activePositions, completedPositions, positionCounter, handlers,
                 monitors, now, transitionExecuted, positionClosed, sellFailures, logged,
                 firedRungs, criticalAt, returnedPositions>>
  /\ UNCHANGED detectorVars

TransitionLogic_initialize == registerListener(MaxListeners)

\* startPositionMonitoring(): one more setInterval, never cleared; the count
\* of live timers saturates at maxTimers
startPositionMonitoring(maxTimers) == Min(monitorTimers + 1, maxTimers)

\* start(); a start that takes effect ends the time after a CRITICAL riskAlert
startTransitionLogic(maxTimers) ==
  /\ IF tlRunning
     THEN UNCHANGED <<tlRunning, monitorTimers, criticalAt>>
     ELSE /\ tlRunning' = TRUE
          /\ monitorTimers' = startPositionMonitoring(maxTimers)
          /\ criticalAt' = NoAlert
  /\ UNCHANGED <<transitionConfig, listeners, positions, activePositions,
                 completedPositions, positionCounter, handlers, monitors, now,
                 transitionExecuted, positionClosed, sellFailures, logged,
                 firedRungs, returnedPositions>>
  /\ UNCHANGED detectorVars

TransitionLogic_start == startTransitionLogic(MaxTimers)

\* stop(): clears isRunning and nothing else
TransitionLogic_stopClosesPositions ==
  /\ tlRunning' = FALSE
  /\ positions' = [p \in DOMAIN positions |->
                     IF MapHas(activePositions, p)
                     THEN [positions[p] EXCEPT !.status = "CLOSED"]
                     ELSE positions[p]]
  /\ activePositions' = <<>>
  /\ completedPositions' = completedPositions \cup Range(activePositions)
  /\ UNCHANGED <<transitionConfig, listeners, monitorTimers, positionCounter,
                 handlers, monitors, now, transitionExecuted, positionClosed,
                 sellFailures, logged, firedRungs,
                 criticalAt, returnedPositions>>
  /\ UNCHANGED detectorVars
TransitionLogic_stop ==
  /\ tlRunning' = FALSE
  /\ UNCHANGED <<transitionConfig, listeners, monitorTimers, positions,
                 activePositions, completedPositions, positionCounter, handlers,
                 monitors, now, transitionExecuted, positionClosed, sellFailures, logged,
                 firedRungs, criticalAt, returnedPositions>>
  /\ UNCHANGED detectorVars

\* FourMemeMigrateSniper.handleRiskAlert(riskData): HIGH only logs, CRITICAL
\* calls transitionLogic.stop(). The listener is set by start(), after
\* transitionLogic.start(), and is never removed.
RiskLevels == {"HIGH", "CRITICAL"}
handleRiskAlert(level) ==
  /\ monitorTimers > 0
  /\ IF level = "CRITICAL"
     THEN /\ tlRunning' = FALSE
          /\ criticalAt' = positionCounter + handlers.swapData + handlers.buy
     ELSE UNCHANGED <<tlRunning, criticalAt>>
  /\ UNCHANGED <<transitionConfig, listeners, monitorTimers, positions,
                 activePositions, completedPositions, positionCounter, handlers,
                 monitors, now, transitionExecuted, positionClosed, sellFailures,
                 logged, firedRungs, returnedPositions>>
  /\ UNCHANGED detectorVars

\* getActivePositions(): a new Map with the keys of activePositions and, as
\* values, the same TradePosition objects. The caller's copy is kept as the
\* keys and the content the objects had at the return.
getActivePositions ==
  /\ returnedPositions' =
       [keys   |-> activePositions,
        values |-> [i \in 1..Len(activePositions) |-> positions[activePositions[i]]]]
  /\ UNCHANGED <<transitionConfig, tlRunning, listeners, monitorTimers, positions,
                 activePositions, completedPositions, positionCounter, handlers,
                 monitors, now, transitionExecuted, positionClosed, sellFailures,
                 logged, firedRungs, criticalAt>>
  /\ UNCHANGED detectorVars

\* Date.now() advances; the clock is read in steps longer than any maxHoldTime
ClockStep == strategies["aggressive"].maxHoldTime + 1
Clock ==
  /\ now + ClockStep <= MaxNow
  /\ now' = now + ClockStep
  /\ UNCHANGED <<transitionConfig, tlRunning, listeners, monitorTimers, positions,
                 activePositions, completedPositions, positionCounter, handlers,
                 monitors, transitionExecuted, positionClosed, sellFailures, logged,
                 firedRungs, criticalAt, returnedPositions>>
  /\ UNCHANGED detectorVars

\* ------------------------------------------- TransitionLogic.handleMigrationEvent
\* the admission check with the comparison off by one
maxConcurrentReachedOffByOne ==
  Len(activePositions) > transitionConfig.maxConcurrentTrades

\* line 146: the only admission check
maxConcurrentReached ==
  Len(activePositions) >= transitionConfig.maxConcurrentTrades

InFlight == handlers.swapData + handlers.buy

\* A 'migrationDetected' event is delivered: every registered listener runs
\* handleMigrationEvent up to its first await (getMigrationSwapData).
\* maxHandlers bounds the calls in flight.
handleMigrationEvent(maxHandlers) ==
  /\ listeners >= 1
  /\ IF maxConcurrentReached
     THEN /\ logged' = logged \cup {SkippedLog}
          /\ UNCHANGED handlers
     ELSE /\ InFlight + listeners <= maxHandlers
          /\ handlers' = [handlers EXCEPT !.swapData = @ + listeners]
          /\ UNCHANGED logged
  /\ UNCHANGED <<lifecycleVars, eventVars, positions, activePositions,
                 completedPositions, positionCounter, monitors, now, sellFailures,
                 firedRungs, criticalAt, returnedPositions>>
  /\ UNCHANGED detectorVars

\* liquidityBNB values getMigrationSwapData can report
Liquidity == {0, 1000}

\* line 157: liquidityBNB < strategies.get('default')?.buyAmount || BigInt(0).
\* No strategy is named 'default', so the comparison is against undefined
\* (false) and the condition is BigInt(0), which is falsy.
insufficientLiquidity(liquidityBNB) ==
  IF "default" \in DOMAIN strategies
  THEN liquidityBNB < strategies["default"].buyAmount
  ELSE FALSE

\* getMigrationSwapData returns or throws; then the liquidity check, the
\* strategy lookup and executeBuyOrder up to its awaits (getAmountsOut, swap)
swapDataArrives(found, liquidityBNB) ==
  /\ handlers.swapData > 0
  /\ IF ~found \/ insufficientLiquidity(liquidityBNB)
     THEN handlers' = [handlers EXCEPT !.swapData = @ - 1]
     ELSE handlers' = [handlers EXCEPT !.swapData = @ - 1, !.buy = @ + 1]
  /\ UNCHANGED <<lifecycleVars, eventVars, positions, activePositions,
                 completedPositions, positionCounter, monitors, now, sellFailures, logged,
                 firedRungs, criticalAt, returnedPositions>>
  /\ UNCHANGED detectorVars

getMigrationSwapData ==
  \E found \in BOOLEAN, liquidityBNB \in Liquidity :
    swapDataArrives(found, liquidityBNB)

\* what executeBuyOrder yields: a SwapResult with success true or false, or
\* an error thrown by getAmountsOut
BuyResults == {"success", "failure", "error"}

\* executeTransitionStrategy that queues the event again when the buy failed
buyCompletesRequeue(buyResult) ==
  /\ handlers.buy > 0
  /\ IF buyResult = "success"
     THEN /\ positionCounter' = positionCounter + 1
          /\ positions' = Append(positions, createPosition(now))
          /\ activePositions' = MapSet(activePositions, positionCounter + 1)
          /\ transitionExecuted' = transitionExecuted + 1
          /\ handlers' = [handlers EXCEPT !.buy = @ - 1]
          /\ UNCHANGED logged
     ELSE /\ logged' = logged \cup {FailedLog}
          /\ handlers' = [handlers EXCEPT !.buy = @ - 1, !.swapData = @ + 1]
          /\ UNCHANGED <<positionCounter, positions, activePositions,
                          transitionExecuted>>
  /\ UNCHANGED <<lifecycleVars, positionClosed, completedPositions, monitors,
                 now, sellFailures, firedRungs,
                 criticalAt, returnedPositions>>
  /\ UNCHANGED detectorVars

\* executeTransitionStrategy once executeBuyOrder has yielded buyResult:
\* lines 196-227, and the emit of handleMigrationEvent (lines 165-170)
buyCompletes(buyResult) ==
  /\ handlers.buy > 0
  /\ IF buyResult = "success"
     THEN /\ positionCounter' = positionCounter + 1
          /\ positions' = Append(positions, createPosition(now))
          /\ activePositions' = MapSet(activePositions, positionCounter + 1)
          /\ transitionExecuted' = transitionExecuted + 1
          /\ UNCHANGED logged
     ELSE /\ logged' = logged \cup {FailedLog}
          /\ UNCHANGED <<positionCounter, positions, activePositions,
                          transitionExecuted>>
  /\ handlers' = [handlers EXCEPT !.buy = @ - 1]
  /\ UNCHANGED <<lifecycleVars, positionClosed, completedPositions, monitors,
                 now, sellFailures, firedRungs,
                 criticalAt, returnedPositions>>
  /\ UNCHANGED detectorVars

\* maxPositions bounds the positions ever created
executeTransitionStrategy(maxPositions) ==
  \E buyResult \in BuyResults :
    /\ buyResult = "success" => positionCounter < maxPositions
    /\ buyCompletes(buyResult)

\* ---------------------------------------------- TransitionLogic.monitorPositions
\* the for-of loop moves to the next entry of activePositions, or ends
NextPosition(mon, act) ==
  IF mon.cursor + 1 <= Len(act)
  THEN [mon EXCEPT !.pc = "price", !.cursor = @ + 1, !.pos = act[mon.cursor + 1],
                   !.reason = "none"]
  ELSE Idle

\* a timer of startPositionMonitoring fires: monitorPositions starts a pass
\* and awaits the price of the first position. maxMonitors bounds the passes
\* in flight.
monitorPositions(maxMonitors) ==
  /\ monitorTimers > 0
  /\ activePositions # <<>>
  /\ \E m \in 1..maxMonitors :
       /\ monitors[m] = Idle
       /\ \A k \in 1..(m - 1) : monitors[k] # Idle
       /\ monitors' = [monitors EXCEPT ![m] =
                         NextPosition([pc |-> "price", cursor |-> 0, pos |-> 0,
                                       reason |-> "none", sold |-> {}],
                                      activePositions)]
  /\ UNCHANGED <<lifecycleVars, eventVars, positions, activePositions,
                 completedPositions, positionCounter, handlers, now, sellFailures, logged,
                 firedRungs, criticalAt, returnedPositions>>
  /\ UNCHANGED detectorVars

\* getCurrentTokenPrice: the pool's price, or 0 when the read throws
getCurrentTokenPrice(read) == IF read = NoPrice THEN 0 ELSE read

\* the price read of updatePositionStatus returns: lines 339-351, then
\* checkExitConditions and, on an exit, executeExitStrategy up to the sell
priceArrives(m, read) ==
  /\ monitors[m].pc = "price"
  /\ LET p   == monitors[m].pos
         pos == [positions[p] EXCEPT !.currentPrice = getCurrentTokenPrice(read)]
         act == MapSet(activePositions, p)
         shouldExit == checkExitConditions(pos, now)
     IN /\ positions' = [positions EXCEPT ![p] = pos]
        /\ activePositions' = act
        /\ IF shouldExit.exit
           THEN monitors' = [monitors EXCEPT ![m] =
                  [@ EXCEPT !.pc = "sell", !.reason = shouldExit.reason,
                            !.sold = @ \cup {p}]]
           ELSE monitors' = [monitors EXCEPT ![m] = NextPosition(@, act)]
        /\ firedRungs' = [firedRungs EXCEPT ![p] = @ \cup RungOf(shouldExit.reason)]
  /\ UNCHANGED <<lifecycleVars, eventVars, completedPositions, positionCounter,
                 handlers, now, sellFailures, logged, criticalAt, returnedPositions>>
  /\ UNCHANGED detectorVars

\* reads: what the price read can yield (a price, or NoPrice when it throws)
updatePositionStatus(m, reads) == \E read \in reads : priceArrives(m, read)

\* what executeSellOrder yields: a SwapResult with success true or false, or
\* an error thrown by getAmountsOut
SellResults == {"success", "failure", "error"}

\* the position object after a successful sell: lines 408-411
closePosition(pos, reason, t) ==
  [pos EXCEPT !.status = "CLOSED", !.exitPrice = pos.currentPrice,
              !.exitTime = t, !.exitReason = reason]

\* executeExitStrategy once executeSellOrder has yielded sellResult: lines
\* 406-428, then the loop of monitorPositions goes on. maxFails bounds the
\* failed sells counted.
sellCompletes(m, sellResult, maxFails) ==
  /\ monitors[m].pc = "sell"
  /\ LET p == monitors[m].pos IN
     IF sellResult = "success"
     THEN /\ positions' = [positions EXCEPT ![p] =
                             closePosition(@, monitors[m].reason, now)]
          /\ activePositions' = MapDelete(activePositions, p)
          /\ completedPositions' = completedPositions \cup {p}
          /\ positionClosed' = [positionClosed EXCEPT ![p] = Sat(@)]
          /\ sellFailures' = [sellFailures EXCEPT ![p] = 0]
          /\ monitors' = [k \in MonitorIds |->
               IF monitors[k] = Idle THEN Idle
               ELSE LET mon == [monitors[k] EXCEPT !.cursor =
                                  IterAfterDelete(@, activePositions, p)]
                    IN IF k = m THEN NextPosition(mon, MapDelete(activePositions, p))
                       ELSE mon]
     ELSE /\ positions' = IF sellResult = "failure"
                          THEN [positions EXCEPT ![p].status = "STOPPED"]
                          ELSE positions
          /\ sellFailures' = [sellFailures EXCEPT ![p] = Min(@ + 1, maxFails)]
          /\ monitors' = [monitors EXCEPT ![m] = NextPosition(@, activePositions)]
          /\ UNCHANGED <<activePositions, completedPositions, positionClosed>>
  /\ UNCHANGED <<lifecycleVars, transitionExecuted, positionCounter, handlers, now,
                 logged, firedRungs, criticalAt, returnedPositions>>
  /\ UNCHANGED detectorVars

executeExitStrategy(m, maxFails) ==
  \E sellResult \in SellResults : sellCompletes(m, sellResult, maxFails)

\* ---------------------------------------------- TransitionLogic.getPositionStats
\* pos.profitLoss || 0: the profitLoss of the latest price update, 0 when the
\* position never had one
profitLossOr0(pos) ==
  IF pos.currentPrice = NoPrice THEN 0 ELSE ProfitLoss(pos)

\* completedPositions.reduce((sum, pos) => sum + (pos.profitLoss || 0), 0)
RECURSIVE reduceProfit(_)
reduceProfit(ids) ==
  IF ids = {} THEN 0
  ELSE LET p == CHOOSE q \in ids : TRUE
       IN profitLossOr0(positions[p]) + reduceProfit(ids \ {p})

\* completedPositions.filter(pos => (pos.profitLoss || 0) > 0)
filterWinsKeepsAll(ids) == ids
filterWins(ids) == {p \in ids : profitLossOr0(positions[p]) > 0}

\* getPositionStats(); successRate is kept as the fraction num / den
getPositionStats ==
  [activePositions    |-> Len(activePositions),
   completedPositions |-> Cardinality(completedPositions),
   totalProfit        |-> reduceProfit(completedPositions),
   successRate        |->
     IF Cardinality(completedPositions) > 0
     THEN [num |-> Cardinality(filterWins(completedPositions)),
           den |-> Cardinality(completedPositions)]
     ELSE [num |-> 0, den |-> 1]]

\* ============================================================ MigrationDetector
Tokens   == {"a", "b"}
CheckIds == 1..MaxChecks
NoStatus == 0 - 1

\* loadMigrationConfig: the defaults, with MAX_TOKENS_TO_MONITOR as configured
loadMigrationConfig(maxTokens) ==
  [migrationThreshold       |-> 180,
   preMigrationBuffer       |-> 5,
   confirmationBlocks       |-> 3,
   maxTokensToMonitor       |-> maxTokens,
   enablePredictiveAnalysis |-> TRUE]

\* marketCap values the valuation of a token can report. The source's stand-in
\* for the bonding-curve read answers 15.5 BNB for every pool; the pair read
\* answers what the pool holds.
MarketCaps == {155, 185}

\* a keyed JS Map as the sequence of its live entries in insertion order
Keys(map) == [i \in 1..Len(map) |-> map[i].address]
EntrySet(map, k, v) ==
  IF MapHas(Keys(map), k)
  THEN [map EXCEPT ![IndexOf(Keys(map), k)].data = v]
  ELSE Append(map, [address |-> k, data |-> v])
EntryDelete(map, k) ==
  IF MapHas(Keys(map), k)
  THEN SubSeq(map, 1, IndexOf(Keys(map), k) - 1)
         \o SubSeq(map, IndexOf(Keys(map), k) + 1, Len(map))
  ELSE map

\* getBondingCurveMarketCap: the stand-in answers 15.5 BNB at 86% progress
ProgressScale == 100
StandInCurveData == [marketCap |-> 155, liquidityBNB |-> 155, progress |-> 86]

NoResult == [num |-> 0 - 1, den |-> 1]
\* estimateTimeToMigration is called with these distances (0.1 BNB)
Distances == {0 - 1, 0, 1, 25, 30, 60}

\* the detector as constructed with this configuration, next to a bonding
\* curve that answers curveData
DetectorInitWith(config, curveData) ==
  /\ migrationConfig = config
  /\ mdRunning = FALSE
  /\ checkInterval = FALSE
  /\ tokenObjects = <<>>
  /\ monitoredTokens = <<>>
  /\ migrationStatuses = [a \in Tokens |-> NoStatus]
  /\ predictiveAnalyses = {}
  /\ pendingAdds = {}
  /\ checks = [c \in CheckIds |-> Idle]
  /\ blockNumber = 0
  /\ migrationDetected = [a \in Tokens |-> 0]
  /\ qualifying = [a \in Tokens |-> 0]
  /\ tokenAdded = [a \in Tokens |-> 0]
  /\ tokenRemoved = [a \in Tokens |-> 0]
  /\ addTokenPromise = [a \in Tokens |-> "none"]
  /\ statusUpdate = [a \in Tokens |-> NoTime]
  /\ bondingCurveData = curveData
  /\ migrationProbability = NoResult
  /\ estimatedTimeToMigration = [d \in Distances |-> NoResult]

DetectorInit(maxTokens) ==
  DetectorInitWith(loadMigrationConfig(maxTokens), StandInCurveData)

\* start(): startMonitoringLoop sets the interval
MigrationDetector_start ==
  /\ IF mdRunning
     THEN UNCHANGED <<mdRunning, checkInterval>>
     ELSE /\ mdRunning' = TRUE
          /\ checkInterval' = TRUE
  /\ UNCHANGED <<migrationConfig, tokenObjects, monitoredTokens, migrationStatuses,
                 predictiveAnalyses, pendingAdds, checks, blockNumber,
                 migrationDetected, qualifying,
                 tokenAdded, tokenRemoved, addTokenPromise, statusUpdate, estimateVars>>
  /\ UNCHANGED tradeVars

\* stop(): clears the interval; passes in flight go on
MigrationDetector_stop ==
  /\ IF ~mdRunning
     THEN UNCHANGED <<mdRunning, checkInterval>>
     ELSE /\ mdRunning' = FALSE
          /\ checkInterval' = FALSE
  /\ UNCHANGED <<migrationConfig, tokenObjects, monitoredTokens, migrationStatuses,
                 predictiveAnalyses, pendingAdds, checks, blockNumber,
                 migrationDetected, qualifying,
                 tokenAdded, tokenRemoved, addTokenPromise, statusUpdate, estimateVars>>
  /\ UNCHANGED tradeVars

\* the chain produces a block
NewBlock ==
  /\ blockNumber < MaxBlock
  /\ blockNumber' = blockNumber + 1
  /\ UNCHANGED <<migrationConfig, mdRunning, checkInterval, tokenObjects,
                 monitoredTokens, migrationStatuses, predictiveAnalyses,
                 pendingAdds, checks, migrationDetected, qualifying,
                 tokenAdded, tokenRemoved, addTokenPromise, statusUpdate, estimateVars>>
  /\ UNCHANGED tradeVars

\* line 1066: this.monitoredTokens.has(tokenAddress)
alreadyMonitoredNever(tokenAddress) == FALSE
alreadyMonitored(tokenAddress) == MapHas(Keys(monitoredTokens), tokenAddress)

\* line 1072: the monitoring limit is reached
monitoringLimitReachedOffByOne ==
  Len(monitoredTokens) > migrationConfig.maxTokensToMonitor
monitoringLimitReached ==
  Len(monitoredTokens) >= migrationConfig.maxTokensToMonitor

\* addToken(tokenAddress) up to the await of fetchTokenData: lines 1066-1078.
\* The call returns (already monitored), throws (limit reached; the catch of
\* line 1097 and the one of addTokenToMonitor rethrow it) or awaits the fetch.
addToken(tokenAddress) ==
  /\ tokenAddress \notin pendingAdds
  /\ IF alreadyMonitored(tokenAddress)
     THEN /\ UNCHANGED pendingAdds
          /\ addTokenPromise' = [addTokenPromise EXCEPT ![tokenAddress] = "fulfilled"]
     ELSE IF monitoringLimitReached
     THEN /\ UNCHANGED pendingAdds
          /\ addTokenPromise' = [addTokenPromise EXCEPT ![tokenAddress] = "rejected"]
     ELSE /\ pendingAdds' = pendingAdds \cup {tokenAddress}
          /\ addTokenPromise' = [addTokenPromise EXCEPT ![tokenAddress] = "pending"]
  /\ UNCHANGED <<migrationConfig, mdRunning, checkInterval, tokenObjects,
                 monitoredTokens, migrationStatuses, predictiveAnalyses, checks,
                 blockNumber, migrationDetected, qualifying,
                 tokenAdded, tokenRemoved, statusUpdate, estimateVars>>
  /\ UNCHANGED tradeVars

\* fetchTokenData(tokenAddress): the object it returns; isMigrated = !!pair
fetchTokenData(tokenAddress, pair) ==
  [address |-> tokenAddress, isMigrated |-> pair]

\* fetchTokenData returns or throws; then lines 1081-1096 of addToken.
\* calculateMigrationStatus can only throw on the pair read of a migrated token.
\* maxEmit is where the count of 'tokenAdded' events saturates.
tokenDataArrives(tokenAddress, fetched, pair, valued, marketCap, maxObjects, maxEmit) ==
  /\ tokenAddress \in pendingAdds
  /\ pendingAdds' = pendingAdds \ {tokenAddress}
  /\ IF ~fetched
     THEN /\ addTokenPromise' = [addTokenPromise EXCEPT ![tokenAddress] = "rejected"]
          /\ UNCHANGED <<tokenObjects, monitoredTokens, migrationStatuses,
                         predictiveAnalyses, tokenAdded>>
     ELSE /\ Len(tokenObjects) < maxObjects
          /\ tokenObjects' = Append(tokenObjects, fetchTokenData(tokenAddress, pair))
          /\ monitoredTokens' =
               EntrySet(monitoredTokens, tokenAddress, Len(tokenObjects) + 1)
          /\ IF pair /\ ~valued
             THEN /\ addTokenPromise' =
                       [addTokenPromise EXCEPT ![tokenAddress] = "rejected"]
                  /\ UNCHANGED <<migrationStatuses, predictiveAnalyses, tokenAdded>>
             ELSE /\ migrationStatuses' =
                       [migrationStatuses EXCEPT ![tokenAddress] = marketCap]
                  /\ predictiveAnalyses' =
                       IF migrationConfig.enablePredictiveAnalysis
                       THEN predictiveAnalyses \cup {tokenAddress}
                       ELSE predictiveAnalyses
                  /\ tokenAdded' =
                       [tokenAdded EXCEPT ![tokenAddress] = Min(@ + 1, maxEmit)]
                  /\ addTokenPromise' =
                       [addTokenPromise EXCEPT ![tokenAddress] = "fulfilled"]
  /\ UNCHANGED <<migrationConfig, mdRunning, checkInterval, checks, blockNumber,
                 migrationDetected, qualifying, tokenRemoved, statusUpdate, estimateVars>>
  /\ UNCHANGED tradeVars

addTokenCompletes(tokenAddress, maxObjects, maxEmit) ==
  \E fetched \in BOOLEAN, pair \in BOOLEAN, valued \in BOOLEAN,
     marketCap \in MarketCaps :
    tokenDataArrives(tokenAddress, fetched, pair, valued, marketCap, maxObjects, maxEmit)

\* removeToken(tokenAddress); iterators over monitoredTokens follow the delete.
\* maxEmit is where the count of 'tokenRemoved' events saturates.
removeToken(tokenAddress, maxEmit) ==
  /\ monitoredTokens' = EntryDelete(monitoredTokens, tokenAddress)
  /\ migrationStatuses' = [migrationStatuses EXCEPT ![tokenAddress] = NoStatus]
  /\ predictiveAnalyses' = predictiveAnalyses \ {tokenAddress}
  /\ checks' = [c \in CheckIds |->
       IF checks[c] = Idle THEN Idle
       ELSE [checks[c] EXCEPT !.cursor =
               IterAfterDelete(@, Keys(monitoredTokens), tokenAddress)]]
  /\ tokenRemoved' = [tokenRemoved EXCEPT ![tokenAddress] = Min(@ + 1, maxEmit)]
  /\ UNCHANGED <<migrationConfig, mdRunning, checkInterval, tokenObjects,
                 pendingAdds, blockNumber, migrationDetected, qualifying,
                 tokenAdded, addTokenPromise, statusUpdate, estimateVars>>
  /\ UNCHANGED tradeVars

\* the for-of loop of checkAllTokens moves to the next entry, or ends
NextToken(chk, map) ==
  IF chk.cursor + 1 <= Len(map)
  THEN [pc |-> "status", cursor |-> chk.cursor + 1,
        address |-> map[chk.cursor + 1].address, data |-> map[chk.cursor + 1].data,
        target |-> 0, lastUpdated |-> NoTime]
  ELSE Idle

\* the catch of checkTokenMigration logs the error of the valuation and
\* returns, so the loop of checkAllTokens goes on
checkTokenMigrationRethrows(chk, map) == Idle
checkTokenMigrationCatches(chk, map) == NextToken(chk, map)

\* the interval of startMonitoringLoop fires: checkAllTokens starts a pass and
\* awaits the valuation of the first token. maxChecks bounds the passes in flight.
checkAllTokens(maxChecks) ==
  /\ checkInterval
  /\ monitoredTokens # <<>>
  /\ \E c \in 1..maxChecks :
       /\ checks[c] = Idle
       /\ \A k \in 1..(c - 1) : checks[k] # Idle
       /\ checks' = [checks EXCEPT ![c] = NextToken([cursor |-> 0], monitoredTokens)]
  /\ UNCHANGED <<migrationConfig, mdRunning, checkInterval, tokenObjects,
                 monitoredTokens, migrationStatuses, predictiveAnalyses,
                 pendingAdds, blockNumber, migrationDetected, qualifying,
                 tokenAdded, tokenRemoved, addTokenPromise, statusUpdate, estimateVars>>
  /\ UNCHANGED tradeVars

\* lines 1451-1457 of checkTokenMigration: performPredictiveAnalysis throws
\* when the address has no migrationStatuses entry
performPredictiveAnalysis(statuses, tokenAddress) ==
  IF migrationConfig.enablePredictiveAnalysis /\ statuses[tokenAddress] # NoStatus
  THEN predictiveAnalyses \cup {tokenAddress}
  ELSE predictiveAnalyses

\* the run of consecutive sampled market caps at or above the threshold
Sampled(n, marketCap) ==
  IF marketCap >= migrationConfig.migrationThreshold
  THEN Min(n + 1, migrationConfig.confirmationBlocks)
  ELSE 0

\* line 1458: emit('statusUpdate') with the migrationStatus of this pass, which
\* carries the Date.now() of its calculateMigrationStatus
emitStatusUpdate(tokenAddress, lastUpdated) ==
  [statusUpdate EXCEPT ![tokenAddress] = lastUpdated]

\* line 1448: the test that starts handleMigrationEvent
thresholdCrossedWhateverFlag(tokenData, marketCap) ==
  marketCap >= migrationConfig.migrationThreshold
thresholdCrossed(tokenData, marketCap) ==
  /\ ~tokenData.isMigrated
  /\ marketCap >= migrationConfig.migrationThreshold

\* calculateMigrationStatus of checkTokenMigration returns or throws: lines
\* 1442-1449, then either handleMigrationEvent up to the block wait of
\* waitForConfirmation or the rest of checkTokenMigration
statusArrives(c, valued, marketCap) ==
  /\ checks[c].pc = "status"
  /\ LET tokenAddress == checks[c].address
         tokenData    == tokenObjects[checks[c].data]
         statuses     == [migrationStatuses EXCEPT ![tokenAddress] = marketCap]
     IN IF tokenData.isMigrated /\ ~valued
        THEN /\ checks' = [checks EXCEPT ![c] =
                               checkTokenMigrationCatches(@, monitoredTokens)]
             /\ UNCHANGED <<migrationStatuses, predictiveAnalyses, qualifying,
                            statusUpdate>>
        ELSE /\ migrationStatuses' = statuses
             /\ qualifying' = [qualifying EXCEPT ![tokenAddress] = Sampled(@, marketCap)]
             /\ IF thresholdCrossed(tokenData, marketCap)
                THEN /\ checks' = [checks EXCEPT ![c] =
                          [@ EXCEPT !.pc = "confirm",
                                    !.target = blockNumber + migrationConfig.confirmationBlocks,
                                    !.lastUpdated = now]]
                     /\ UNCHANGED <<predictiveAnalyses, statusUpdate>>
                ELSE /\ predictiveAnalyses' =
                          performPredictiveAnalysis(statuses, tokenAddress)
                     /\ statusUpdate' = emitStatusUpdate(tokenAddress, now)
                     /\ checks' = [checks EXCEPT ![c] = NextToken(@, monitoredTokens)]
  /\ UNCHANGED <<migrationConfig, mdRunning, checkInterval, tokenObjects,
                 monitoredTokens, pendingAdds, blockNumber, migrationDetected,
                 tokenAdded, tokenRemoved, addTokenPromise, estimateVars>>
  /\ UNCHANGED tradeVars

checkTokenMigration(c) ==
  \E valued \in BOOLEAN, marketCap \in MarketCaps : statusArrives(c, valued, marketCap)

\* waitForConfirmation returns: the chain reached the target block, or a block
\* read threw and the error was swallowed (waited = FALSE). Then lines
\* 1472-1497 of handleMigrationEvent, where the read of migrationBlock can
\* throw (read = FALSE), and the rest of checkTokenMigration.
confirmationArrives(c, waited, read) ==
  /\ checks[c].pc = "confirm"
  /\ waited => blockNumber >= checks[c].target
  /\ LET tokenAddress == checks[c].address IN
     /\ IF read
        THEN /\ tokenObjects' = [tokenObjects EXCEPT ![checks[c].data].isMigrated = TRUE]
             /\ migrationDetected' = [migrationDetected EXCEPT ![tokenAddress] = Sat(@)]
        ELSE UNCHANGED <<tokenObjects, migrationDetected>>
     /\ predictiveAnalyses' = performPredictiveAnalysis(migrationStatuses, tokenAddress)
     /\ statusUpdate' =
          IF migrationStatuses[tokenAddress] # NoStatus
          THEN emitStatusUpdate(tokenAddress, checks[c].lastUpdated)
          ELSE statusUpdate
  /\ checks' = [checks EXCEPT ![c] = NextToken(@, monitoredTokens)]
  /\ UNCHANGED <<migrationConfig, mdRunning, checkInterval, monitoredTokens,
                 migrationStatuses, pendingAdds, blockNumber, qualifying,
                 tokenAdded, tokenRemoved, addTokenPromise, estimateVars>>
  /\ UNCHANGED tradeVars

MigrationDetector_handleMigrationEvent(c) ==
  \E waited \in BOOLEAN, read \in BOOLEAN : confirmationArrives(c, waited, read)

\* ------------------------------------------------------------ specifications
\* Admission and buying, with one monitoring pass at a time. The pool only
\* reports a price above the profit threshold, and failed sells are not counted.
OpenReads == {150}

OpenNext ==
  \/ TransitionLogic_initialize
  \/ TransitionLogic_start
  \/ Clock
  \/ handleMigrationEvent(MaxHandlers)
  \/ getMigrationSwapData
  \/ executeTransitionStrategy(MaxPositions)
  \/ monitorPositions(1)
  \/ \E m \in MonitorIds : updatePositionStatus(m, OpenReads)
  \/ \E m \in MonitorIds : executeExitStrategy(m, 0)

OpenInit ==
  /\ \E c \in ConfigChoices : TradeInit(c)
  /\ DetectorInit(Cardinality(Tokens))

SpecOpen == OpenInit /\ [][OpenNext]_vars

\* Monitoring and selling, under the default configuration.
DefaultConfig == <<5, 1000>>
ExitReads == Prices \cup {NoPrice}

ExitNext ==
  \/ TransitionLogic_initialize
  \/ TransitionLogic_start
  \/ Clock
  \/ handleMigrationEvent(ExitHandlers)
  \/ getMigrationSwapData
  \/ executeTransitionStrategy(ExitPositions)
  \/ monitorPositions(MaxMonitors)
  \/ \E m \in MonitorIds : updatePositionStatus(m, ExitReads)
  \/ \E m \in MonitorIds : executeExitStrategy(m, MaxFails)

ExitInit ==
  /\ TradeInit(DefaultConfig)
  /\ DetectorInit(Cardinality(Tokens))

SpecExit == ExitInit /\ [][ExitNext]_vars

\* Threshold detection for one token, with overlapping passes. The events of
\* the registry are not counted.
DetectTokens == {"a"}

DetectNext ==
  \/ MigrationDetector_start
  \/ MigrationDetector_stop
  \/ NewBlock
  \/ \E t \in DetectTokens : addToken(t)
  \/ \E t \in DetectTokens : addTokenCompletes(t, MaxObjects, 0)
  \/ \E t \in DetectTokens : removeToken(t, 0)
  \/ checkAllTokens(MaxChecks)
  \/ \E c \in CheckIds : checkTokenMigration(c)
  \/ \E c \in CheckIds : MigrationDetector_handleMigrationEvent(c)

DetectInit ==
  /\ TradeInit(DefaultConfig)
  /\ DetectorInit(Cardinality(Tokens))

SpecDetect == DetectInit /\ [][DetectNext]_vars

\* The registry of monitored tokens: two addresses and a limit of one or two
\* tokens, with the sampling timer set but no pass taken.
RegistryNext ==
  \/ MigrationDetector_start
  \/ MigrationDetector_stop
  \/ \E t \in Tokens : addToken(t)
  \/ \E t \in Tokens : addTokenCompletes(t, MaxObjects, MaxEmit)
  \/ \E t \in Tokens : removeToken(t, MaxEmit)

RegistryInit ==
  /\ TradeInit(DefaultConfig)
  /\ \E maxTokens \in 1..Cardinality(Tokens) : DetectorInit(maxTokens)

SpecRegistry == RegistryInit /\ [][RegistryNext]_vars

\* The timers and their passes, one component at a time: either the
\* TransitionLogic runs next to a MigrationDetector nothing has called, or the
\* MigrationDetector next to a TransitionLogic nothing has called. One pass at
\* a time per timer; a price read yields a price above the profit threshold or
\* throws; the events of the registry and failed sells are not counted.
UnitReads == {NoPrice, 150}

\* the MigrationDetector as constructed
detectorUnused ==
  /\ ~mdRunning
  /\ monitoredTokens = <<>>
  /\ pendingAdds = {}
  /\ blockNumber = 0
  /\ \A a \in Tokens : addTokenPromise[a] = "none"

\* the TransitionLogic as constructed
tradeUnused ==
  /\ ~tlRunning
  /\ listeners = 0
  /\ monitorTimers = 0
  /\ positionCounter = 0
  /\ logged = {}

UnitsNext ==
  \/ detectorUnused /\ TransitionLogic_initialize
  \/ detectorUnused /\ TransitionLogic_start
  \/ detectorUnused /\ TransitionLogic_stop
  \/ detectorUnused /\ handleMigrationEvent(ExitHandlers)
  \/ detectorUnused /\ getMigrationSwapData
  \/ detectorUnused /\ executeTransitionStrategy(MaxPositions)
  \/ detectorUnused /\ monitorPositions(1)
  \/ detectorUnused /\ \E m \in MonitorIds : updatePositionStatus(m, UnitReads)
  \/ detectorUnused /\ \E m \in MonitorIds : executeExitStrategy(m, 0)
  \/ tradeUnused /\ MigrationDetector_start
  \/ tradeUnused /\ MigrationDetector_stop
  \/ tradeUnused /\ NewBlock
  \/ tradeUnused /\ \E t \in Tokens : addToken(t)
  \/ tradeUnused /\ \E t \in Tokens : addTokenCompletes(t, MaxObjects, 0)
  \/ tradeUnused /\ checkAllTokens(1)
  \/ tradeUnused /\ \E c \in CheckIds : checkTokenMigration(c)
  \/ tradeUnused /\ \E c \in CheckIds : MigrationDetector_handleMigrationEvent(c)

UnitsInit ==
  /\ TradeInit(DefaultConfig)
  /\ DetectorInit(Cardinality(Tokens))

SpecUnits == UnitsInit /\ [][UnitsNext]_vars

\* Risk alerts reaching a started TransitionLogic, with one position and one
\* monitoring pass at a time; failed sells are not counted.
AlertNext ==
  \/ TransitionLogic_initialize
  \/ TransitionLogic_start
  \/ \E level \in RiskLevels : handleRiskAlert(level)
  \/ handleMigrationEvent(ExitHandlers)
  \/ getMigrationSwapData
  \/ executeTransitionStrategy(ExitPositions)
  \/ monitorPositions(1)
  \/ \E m \in MonitorIds : updatePositionStatus(m, UnitReads)
  \/ \E m \in MonitorIds : executeExitStrategy(m, 0)

AlertInit ==
  /\ TradeInit(DefaultConfig)
  /\ DetectorInit(Cardinality(Tokens))

SpecAlert == AlertInit /\ [][AlertNext]_vars

\* The order of the samples of one token: overlapping passes, with the clock
\* advancing between them; the token stays monitored.
OrderNext ==
  \/ MigrationDetector_start
  \/ Clock
  \/ NewBlock
  \/ \E t \in DetectTokens : addToken(t)
  \/ \E t \in DetectTokens : addTokenCompletes(t, MaxObjects, 0)
  \/ checkAllTokens(MaxChecks)
  \/ \E c \in CheckIds : checkTokenMigration(c)
  \/ \E c \in CheckIds : MigrationDetector_handleMigrationEvent(c)

OrderInit ==
  /\ TradeInit(DefaultConfig)
  /\ DetectorInit(Cardinality(Tokens))

SpecOrder == OrderInit /\ [][OrderNext]_vars

\* What a caller of getActivePositions() holds, with one position and one
\* monitoring pass at a time.
SnapshotNext ==
  \/ TransitionLogic_initialize
  \/ TransitionLogic_start
  \/ handleMigrationEvent(ExitHandlers)
  \/ getMigrationSwapData
  \/ executeTransitionStrategy(ExitPositions)
  \/ monitorPositions(1)
  \/ \E m \in MonitorIds : updatePositionStatus(m, ExitReads)
  \/ \E m \in MonitorIds : executeExitStrategy(m, 0)
  \/ getActivePositions

SnapshotInit ==
  /\ TradeInit(DefaultConfig)
  /\ DetectorInit(Cardinality(Tokens))

SpecSnapshot == SnapshotInit /\ [][SnapshotNext]_vars

\* One position held past its hold time, with one monitoring pass at a time
\* and the timer firing fairly: a pass that can start does start, and a price
\* read or a sell that is awaited does return.
HoldNext ==
  \/ TransitionLogic_initialize
  \/ TransitionLogic_start
  \/ Clock
  \/ handleMigrationEvent(ExitHandlers)
  \/ getMigrationSwapData
  \/ executeTransitionStrategy(ExitPositions)
  \/ monitorPositions(1)
  \/ \E m \in MonitorIds : updatePositionStatus(m, OpenReads)
  \/ \E m \in MonitorIds : executeExitStrategy(m, MaxFails)

HoldInit ==
  /\ TradeInit(DefaultConfig)
  /\ DetectorInit(Cardinality(Tokens))

HoldFairness ==
  /\ WF_vars(monitorPositions(1))
  /\ \A m \in MonitorIds : WF_vars(updatePositionStatus(m, OpenReads))
  /\ \A m \in MonitorIds : WF_vars(executeExitStrategy(m, MaxFails))

SpecHold == HoldInit /\ [][HoldNext]_vars /\ HoldFairness

\* Two positions closed at a gain or at a loss, with one monitoring pass at a
\* time; failed sells are not counted.
StatsReads == {0, 150}

StatsNext ==
  \/ TransitionLogic_initialize
  \/ TransitionLogic_start
  \/ handleMigrationEvent(MaxHandlers)
  \/ getMigrationSwapData
  \/ executeTransitionStrategy(MaxPositions)
  \/ monitorPositions(1)
  \/ \E m \in MonitorIds : updatePositionStatus(m, StatsReads)
  \/ \E m \in MonitorIds : executeExitStrategy(m, 0)

StatsInit ==
  /\ TradeInit(DefaultConfig)
  /\ DetectorInit(Cardinality(Tokens))

SpecStats == StatsInit /\ [][StatsNext]_vars

\* ------------------------------------------------- valuation figures
\* JS numbers as exact fractions; a zero denominator is Infinity
Rat(n, d)    == [num |-> n, den |-> d]
RatAdd(a, b) == Rat(a.num * b.den + b.num * a.den, a.den * b.den)
RatMul(a, b) == Rat(a.num * b.num, a.den * b.den)
RatDiv(a, b) == Rat(a.num * b.den, a.den * b.num)
RatLess(a, b) == a.num * b.den < b.num * a.den
RatMax(a, b) == IF RatLess(a, b) THEN b ELSE a
RatMin(a, b) == IF RatLess(b, a) THEN b ELSE a

calculateMigrationProbabilityUncapped(config, currentMarketCap, bondingCurveProgress) ==
  LET threshold == config.migrationThreshold
      buffer    == config.preMigrationBuffer
  IN IF currentMarketCap >= threshold
     THEN Rat(1, 1)
     ELSE IF currentMarketCap >= threshold - buffer
          THEN RatAdd(Rat(7, 10),
                      RatMul(Rat(currentMarketCap - (threshold - buffer), buffer),
                             Rat(3, 10)))
          ELSE RatMul(bondingCurveProgress, Rat(currentMarketCap, threshold))

\* lines 1322-1347; nothing in the try block throws
calculateMigrationProbability(config, currentMarketCap, bondingCurveProgress) ==
  LET threshold == config.migrationThreshold
      buffer    == config.preMigrationBuffer
  IN IF currentMarketCap >= threshold
     THEN Rat(1, 1)
     ELSE IF currentMarketCap >= threshold - buffer
          THEN LET progressInBuffer ==
                     Rat(currentMarketCap - (threshold - buffer), buffer)
               IN RatAdd(Rat(7, 10), RatMul(progressInBuffer, Rat(3, 10)))
          ELSE LET progressFactor  == bondingCurveProgress
                   marketCapFactor == Rat(currentMarketCap, threshold)
               IN RatMin(RatMul(progressFactor, marketCapFactor), Rat(7, 10))

estimateTimeToMigrationPastThreshold(distanceToMigration, bondingCurveProgress) ==
  IF distanceToMigration >= 0
  THEN Rat(0, 1)
  ELSE RatMax(RatDiv(Rat(distanceToMigration, 10),
                     RatMul(bondingCurveProgress, Rat(1, 100))),
              Rat(1000, 1))

\* lines 1349-1365, in milliseconds; the distance is in 0.1 BNB
estimateTimeToMigration(distanceToMigration, bondingCurveProgress) ==
  IF distanceToMigration <= 0
  THEN Rat(0, 1)
  ELSE LET progressRate  == RatMul(bondingCurveProgress, Rat(1, 100))
           estimatedTime == RatDiv(Rat(distanceToMigration, 10), progressRate)
       IN RatMax(estimatedTime, Rat(1000, 1))

\* line 1234 of calculateMigrationStatus, for a token on the bonding curve
calculateMigrationStatus ==
  /\ migrationProbability' =
       calculateMigrationProbability(migrationConfig, bondingCurveData.marketCap,
                                     Rat(bondingCurveData.progress, ProgressScale))
  /\ UNCHANGED <<migrationConfig, mdRunning, checkInterval, tokenObjects,
                 monitoredTokens, migrationStatuses, predictiveAnalyses,
                 pendingAdds, checks, blockNumber, migrationDetected, qualifying,
                 tokenAdded, tokenRemoved, addTokenPromise, statusUpdate,
                 bondingCurveData, estimatedTimeToMigration>>
  /\ UNCHANGED tradeVars

\* estimateTimeToMigration applied to one distance at the progress of the curve
estimateTimeAt(distanceToMigration) ==
  /\ estimatedTimeToMigration' =
       [estimatedTimeToMigration EXCEPT ![distanceToMigration] =
          estimateTimeToMigration(distanceToMigration,
                                  Rat(bondingCurveData.progress, ProgressScale))]
  /\ UNCHANGED <<migrationConfig, mdRunning, checkInterval, tokenObjects,
                 monitoredTokens, migrationStatuses, predictiveAnalyses,
                 pendingAdds, checks, blockNumber, migrationDetected, qualifying,
                 tokenAdded, tokenRemoved, addTokenPromise, statusUpdate,
                 bondingCurveData, migrationProbability>>
  /\ UNCHANGED tradeVars

\* The two valuation figures over configured thresholds and buffers (0.1 BNB),
\* market caps from 0 up to MaxMarketCap and progress from 0 to 1.
MaxMarketCap == 10
Thresholds   == {1, 3, 10}
Buffers      == {1, 2, 4}
Progresses   == {0, 25, 50, 86, 100}

EstimateNext ==
  \/ calculateMigrationStatus
  \/ \E d \in Distances : estimateTimeAt(d)

EstimateInit ==
  /\ TradeInit(DefaultConfig)
  /\ \E threshold \in Thresholds, buffer \in Buffers,
        marketCap \in 0..MaxMarketCap, progress \in Progresses :
       DetectorInitWith(
         [loadMigrationConfig(Cardinality(Tokens)) EXCEPT
            !.migrationThreshold = threshold, !.preMigrationBuffer = buffer],
         [marketCap |-> marketCap, liquidityBNB |-> marketCap, progress |-> progress])

SpecEstimate == EstimateInit /\ [][EstimateNext]_vars

\* The lifecycle calls in any order: initialize() more than once, start(),
\* stop() and start() again (restart() is stop() followed by start()), with
\* crossing events handled up to the creation of the position.
LifeListeners == 2
LifeTimers    == 2

LifeNext ==
  \/ registerListener(LifeListeners)
  \/ startTransitionLogic(LifeTimers)
  \/ TransitionLogic_stop
  \/ MigrationDetector_start
  \/ MigrationDetector_stop
  \/ handleMigrationEvent(MaxHandlers)
  \/ getMigrationSwapData
  \/ executeTransitionStrategy(MaxPositions)

LifeInit ==
  /\ TradeInit(DefaultConfig)
  /\ DetectorInit(Cardinality(Tokens))

SpecLife == LifeInit /\ [][LifeNext]_vars

\* ==================================================================== claims
\* C1: for every address the 'migrationDetected' event is emitted at most
\* once, whatever the sampling passes, addToken and removeToken calls do.
C1_DetectedAtMostOnce == \A a \in Tokens : migrationDetected[a] <= 1

\* C2: 'migrationDetected' is emitted for an address only when its sampled
\* market cap has been at or above the threshold for confirmationWindow
\* (here confirmationBlocks) consecutive sampling passes.
C2_DetectedAfterWindow ==
  [][\A a \in Tokens :
       migrationDetected'[a] # migrationDetected[a]
         => qualifying[a] >= migrationConfig.confirmationBlocks]_vars

\* C3: once the sampled market cap of an address has fallen back below the
\* threshold, the pending confirmation is void: no 'migrationDetected' is
\* emitted for it while its latest sample is below the threshold.
C3_RegressionResets ==
  [][\A a \in Tokens :
       migrationDetected'[a] # migrationDetected[a] => qualifying[a] > 0]_vars

\* the sells in flight for position p
SellsInFlight(p) ==
  {m \in MonitorIds : monitors[m].pc = "sell" /\ monitors[m].pos = p}

\* C4: for every position at most one sell is in flight at any time.
C4_OneSellInFlight == \A p \in PositionIds : Cardinality(SellsInFlight(p)) <= 1

\* a monitoring pass m starts a sell in this step
SellStarts(m) == monitors[m].pc = "price" /\ monitors'[m].pc = "sell"

\* C5: after three consecutive failed sells of a position no further sell is
\* started for it.
C5_BoundedRetries ==
  [][\A m \in MonitorIds :
       SellStarts(m) => sellFailures[monitors'[m].pos] < 3]_vars

\* C6: the number of active positions never exceeds maxConcurrentTrades.
C6_ActiveWithinLimit ==
  Len(activePositions) <= transitionConfig.maxConcurrentTrades

RECURSIVE SumEntryAmount(_)
SumEntryAmount(ids) ==
  IF ids = <<>> THEN 0
  ELSE positions[Head(ids)].entryAmount + SumEntryAmount(Tail(ids))

\* sum of entryAmount over the active positions
Exposure == SumEntryAmount(activePositions)

\* C7: the total entryAmount of the active positions never exceeds
\* maxTotalExposure.
C7_ExposureWithinLimit == Exposure <= transitionConfig.maxTotalExposure

\* a 'migrationDetected' event is delivered while the active set is full
Refusal ==
  /\ handleMigrationEvent(MaxHandlers)
  /\ Len(activePositions) = transitionConfig.maxConcurrentTrades

\* what a refusal must leave alone: no quote or buy in flight is added, and
\* the position store, the active and the completed set stay as they are
RefusalFrame ==
  UNCHANGED <<handlers, positions, activePositions, completedPositions,
              positionCounter>>

\* C8 as stated: an event delivered while the active count equals
\* maxConcurrentTrades is refused, a notification is emitted for the refusal,
\* no quote or buy is issued and the active and completed sets are unchanged.
C8_RefusalNotified ==
  [][Refusal => RefusalFrame /\ eventVars' # eventVars]_vars

\* C8 as amended: an event delivered while the active count equals
\* maxConcurrentTrades is refused with a logged warning only: no event is
\* emitted, no quote or buy is issued and the active and completed sets are
\* unchanged.
C8_RefusalSilent ==
  [][Refusal => /\ RefusalFrame
                /\ UNCHANGED eventVars
                /\ SkippedLog \in logged']_vars

\* a refusal has happened with the active set full and exposure under the cap
C8_Witness ==
  /\ SkippedLog \in logged
  /\ Len(activePositions) = transitionConfig.maxConcurrentTrades
  /\ Exposure < transitionConfig.maxTotalExposure
  /\ InFlight = 0

\* C9: when the buy of an event fails (unsuccessful SwapResult or thrown
\* error) no position is added to the active or completed set, no
\* 'transitionExecuted' is emitted and the buy is not tried again.
C9_BuyFailureLeavesNothing ==
  [][\A buyResult \in {"failure", "error"} :
       buyCompletes(buyResult)
         => /\ UNCHANGED <<positions, activePositions, completedPositions,
                           positionCounter, transitionExecuted>>
            /\ handlers' = [handlers EXCEPT !.buy = @ - 1]]_vars

\* a buy has failed and the handler has ended, with nothing opened
C9_Witness ==
  /\ FailedLog \in logged
  /\ InFlight = 0
  /\ positions = <<>>
  /\ transitionExecuted = 0

\* the exit cause of highest priority that holds for pos at time t, in the
\* order stop-loss, profit target, max hold time, partial-sell ladder
HighestCause(pos, t) ==
  LET strategy == strategies[pos.strategy] IN
  IF ProfitLossPercent(pos) <= 0 - strategy.stopLossThreshold
  THEN "Stop loss triggered"
  ELSE IF ProfitLossPercent(pos) >= strategy.sellThreshold
  THEN "Profit threshold reached"
  ELSE IF t - pos.entryTime > strategy.maxHoldTime
  THEN "Max hold time reached"
  ELSE IF PartialSellDue(pos, strategy) # <<>>
  THEN PartialSellReason(Head(PartialSellDue(pos, strategy)))
  ELSE "none"

\* C10: a sell is started with the reason of the highest-priority cause that
\* holds, and a monitoring pass starts at most one sell per position.
C10_OneCauseOneSell ==
  [][\A m \in MonitorIds :
       SellStarts(m)
         => /\ monitors'[m].reason = HighestCause(positions'[monitors'[m].pos], now)
            /\ monitors'[m].pos \notin monitors[m].sold]_vars

\* C11: a rung of the ladder starts an exit at most once per position: no
\* sell is started for a rung that has already fired for that position.
C11_RungFiresOnce ==
  [][\A m \in MonitorIds :
       SellStarts(m)
         => RungOf(monitors'[m].reason) \cap firedRungs[monitors'[m].pos] = {}]_vars

\* C12: a rung of the ladder never closes the position: no position in the
\* completed set carries a partial-sell exit reason.
C12_RungKeepsPositionOpen ==
  \A p \in completedPositions : RungOf(positions[p].exitReason) = {}

\* C13: a successful sell leaves the position CLOSED with exitPrice, exitTime
\* and exitReason set, out of the active set and in the completed set, and
\* the 'positionClosed' event it emits is the only one for that position.
C13_ClosedOnce ==
  [][\A m \in MonitorIds :
       sellCompletes(m, "success", MaxFails)
         => LET p == monitors[m].pos IN
            /\ positions'[p].status = "CLOSED"
            /\ positions'[p].exitPrice = positions[p].currentPrice
            /\ positions'[p].exitPrice # NoPrice
            /\ positions'[p].exitTime = now
            /\ positions'[p].exitReason = monitors[m].reason
            /\ ~MapHas(activePositions', p)
            /\ p \in completedPositions'
            /\ positionClosed[p] = 0
            /\ positionClosed'[p] = 1]_vars

\* the three registry maps and the objects they hold
registryMaps ==
  <<monitoredTokens, migrationStatuses, predictiveAnalyses, tokenObjects>>

C15_MonitoredWithinLimit ==
  Len(monitoredTokens) <= migrationConfig.maxTokensToMonitor

\* C16: addToken(x) for an address x that is not monitored, with the registry
\* at its limit, fails with an error for the caller, leaves the three maps
\* unchanged, emits no 'tokenAdded' and leaves the detector running.
C16_AddTokenAtLimitFails ==
  [][\A x \in Tokens :
       (/\ addToken(x)
        /\ ~MapHas(Keys(monitoredTokens), x)
        /\ Len(monitoredTokens) >= migrationConfig.maxTokensToMonitor)
         => /\ addTokenPromise'[x] = "rejected"
            /\ UNCHANGED registryMaps
            /\ UNCHANGED <<tokenAdded, pendingAdds>>
            /\ UNCHANGED <<mdRunning, checkInterval>>]_vars

\* addToken(x) was refused while the detector runs with the registry at its
\* limit, held by the other address
C16_Witness ==
  \E x \in Tokens :
    /\ mdRunning
    /\ ~MapHas(Keys(monitoredTokens), x)
    /\ Len(monitoredTokens) = migrationConfig.maxTokensToMonitor
    /\ addTokenPromise[x] = "rejected"
    /\ tokenObjects = <<fetchTokenData(monitoredTokens[1].address, FALSE)>>
    /\ tokenAdded[x] = 0

\* C17: removeToken(x) for an address x that is not monitored changes no map
\* and emits no 'tokenRemoved'.
C17_RemoveUnmonitoredNoOp ==
  [][\A x \in Tokens :
       (removeToken(x, MaxEmit) /\ ~MapHas(Keys(monitoredTokens), x))
         => /\ UNCHANGED registryMaps
            /\ UNCHANGED tokenRemoved]_vars

\* C18: an operation pending on one asset does not hold back the sampling of
\* the others: when a sampling pass starts, the sampling of every monitored
\* asset is under way, none waits for the operation of another asset to return.
C18_NoAssetWaitsForAnother ==
  [][checkAllTokens(1)
       => \A i \in 1..Len(monitoredTokens) :
            \E c \in CheckIds :
              /\ checks'[c] # Idle
              /\ checks'[c].address = monitoredTokens[i].address]_vars

\* an error of a step of sampling pass c: the valuation of a migrated token
\* throws, the block read of the confirmation wait throws, or the read of the
\* migration block throws
SamplingError(c) ==
  \/ /\ checks[c].pc = "status"
     /\ tokenObjects[checks[c].data].isMigrated
     /\ \E marketCap \in MarketCaps : statusArrives(c, FALSE, marketCap)
  \/ \E waited \in BOOLEAN, read \in BOOLEAN :
       /\ ~(waited /\ read)
       /\ confirmationArrives(c, waited, read)

\* an error of a step of monitoring pass m: the price read throws, or the sell
\* throws
MonitoringError(m) ==
  \/ priceArrives(m, NoPrice)
  \/ sellCompletes(m, "error", 0)

\* C19: an error while sampling one asset or monitoring one position stays
\* with that unit: the pass goes on with the same unit or with the next entry
\* of the map, it ends only when no entry is left, and the timer stays set.
C19_ErrorContained ==
  [][/\ \A c \in CheckIds :
          SamplingError(c)
            => /\ checkInterval' = checkInterval
               /\ mdRunning' = mdRunning
               /\ IF checks[c].cursor + 1 <= Len(monitoredTokens)
                  THEN /\ checks'[c] # Idle
                       /\ checks'[c].pc = "status"
                       /\ checks'[c].address =
                            monitoredTokens[checks[c].cursor + 1].address
                  ELSE checks'[c] = Idle
     /\ \A m \in MonitorIds :
          MonitoringError(m)
            => /\ monitorTimers' = monitorTimers
               /\ tlRunning' = tlRunning
               /\ \/ /\ monitors'[m] # Idle
                     /\ monitors'[m].pc = "sell"
                     /\ monitors'[m].pos = monitors[m].pos
                  \/ /\ monitors[m].cursor + 1 <= Len(activePositions')
                     /\ monitors'[m] # Idle
                     /\ monitors'[m].pc = "price"
                     /\ monitors'[m].pos = activePositions'[monitors[m].cursor + 1]
                  \/ /\ monitors[m].cursor + 1 > Len(activePositions')
                     /\ monitors'[m] = Idle]_vars

\* a pass is sampling the second asset after the valuation of the first, a
\* migrated token without a status, threw; or a pass is reading the price of
\* the second position after the price read of the first threw
C19_Witness ==
  \/ /\ checkInterval
     /\ checks[1] # Idle
     /\ checks[1].pc = "status"
     /\ checks[1].cursor = 2
     /\ tokenObjects[monitoredTokens[1].data].isMigrated
     /\ migrationStatuses[monitoredTokens[1].address] = NoStatus
  \/ /\ monitorTimers > 0
     /\ monitors[1] # Idle
     /\ monitors[1].pc = "price"
     /\ monitors[1].cursor = 2
     /\ positions[activePositions[1]].currentPrice = 0

\* C20: once stop() was called, no sampling pass and no position-monitoring
\* pass starts until start() is called again.
C20_NoPassAfterStop ==
  [][/\ \A c \in CheckIds : (checks[c] = Idle /\ checks'[c] # Idle) => mdRunning
     /\ \A m \in MonitorIds : (monitors[m] = Idle /\ monitors'[m] # Idle) => tlRunning]_vars

\* C21: stop() forces no position closed: the call starts no sell and leaves
\* the active set, the completed set and every position as they were.
C21_StopKeepsPositions ==
  [][TransitionLogic_stop
       => /\ UNCHANGED <<positions, activePositions, completedPositions>>
          /\ UNCHANGED <<monitors, positionClosed>>]_vars

\* stop() was called on a started TransitionLogic that holds an ACTIVE position
C21_Witness ==
  /\ monitorTimers > 0
  /\ ~tlRunning
  /\ \E i \in 1..Len(activePositions) :
       positions[activePositions[i]].status = "ACTIVE"

\* C22: after a riskAlert of level CRITICAL no position is opened for a
\* crossing event that arrives afterwards: the positions ever opened stay
\* within those opened, or being opened, when the alert came.
C22_CriticalBlocksOpening ==
  criticalAt # NoAlert => positionCounter <= criticalAt

\* C23: the migrated flag of an address never goes back to false: once the
\* detection of its migration has set the flag, every TokenData monitored
\* for the address carries isMigrated = TRUE, also after removeToken and
\* addToken of the address.
C23_MigratedMonotone ==
  \A i \in 1..Len(monitoredTokens) :
    migrationDetected[monitoredTokens[i].address] > 0
      => tokenObjects[monitoredTokens[i].data].isMigrated

\* C24: the 'statusUpdate' events of one asset come in the order of their
\* samples: an event never carries an earlier lastUpdated than the event
\* before it for that asset, also when passes overlap.
C24_StatusUpdatesInOrder ==
  [][\A a \in Tokens :
       statusUpdate'[a] # statusUpdate[a] => statusUpdate'[a] > statusUpdate[a]]_vars

\* C25: what getActivePositions() returned is a snapshot: later updates of the
\* manager do not change it, so every element the caller holds still has the
\* content it had at the return.
C25_ReturnedIsSnapshot ==
  \A i \in 1..Len(returnedPositions.keys) :
    positions[returnedPositions.keys[i]] = returnedPositions.values[i]

\* C26: when the price read of a monitoring pass fails, the position keeps
\* the current price it had, and the pass starts no exit for it other than
\* the one for the hold time.
C26_FailedQuoteLeavesPrice ==
  [][\A m \in MonitorIds :
       priceArrives(m, NoPrice)
         => /\ positions'[monitors[m].pos].currentPrice
                 = positions[monitors[m].pos].currentPrice
            /\ SellStarts(m) => monitors'[m].reason = "Max hold time reached"]_vars

\* position p is in the active set, its hold time has elapsed and the
\* monitoring timer is set
HeldTooLong(p) ==
  /\ monitorTimers > 0
  /\ MapHas(activePositions, p)
  /\ now - positions[p].entryTime > strategies[positions[p].strategy].maxHoldTime

\* C27: with monitoring passes scheduled fairly, a position whose hold time
\* has elapsed eventually leaves the active set, closed by a sell or given up
\* after a bounded number of failed sells.
C27_EventuallyLeaves ==
  \A p \in PositionIds : HeldTooLong(p) ~> ~MapHas(activePositions, p)

\* the profitLoss of the completed positions among the first n, summed
ProfitUpTo[n \in 0..MaxPositions] ==
  IF n = 0 THEN 0
  ELSE ProfitUpTo[n - 1]
         + (IF n \in completedPositions THEN profitLossOr0(positions[n]) ELSE 0)

\* the completed positions whose profitLoss is above 0
Wins == {p \in completedPositions : ProfitLoss(positions[p]) > 0}

\* C28: getPositionStats() reports the sizes of the active and of the
\* completed set, the sum of profitLoss over the completed positions, and as
\* successRate the share of completed positions with profitLoss > 0, which
\* is 0 when none is completed and lies between 0 and 1.
C28_PositionStats ==
  LET stats == getPositionStats
      rate  == stats.successRate
  IN /\ stats.activePositions = Len(activePositions)
     /\ stats.completedPositions = Cardinality(completedPositions)
     /\ stats.totalProfit = ProfitUpTo[MaxPositions]
     /\ rate.den > 0
     /\ rate.num * Cardinality(completedPositions) = Cardinality(Wins) * rate.den
     /\ completedPositions = {} => rate.num = 0
     /\ 0 <= rate.num /\ rate.num <= rate.den

\* two positions are completed, one at a gain and one at a loss
C28_Witness ==
  /\ Cardinality(completedPositions) = 2
  /\ Cardinality(Wins) = 1
  /\ getPositionStats.successRate = [num |-> 1, den |-> 2]
  /\ getPositionStats.totalProfit = 0 - 50

\* C29: the crossing probability is 1 exactly when the market cap has reached
\* the threshold; inside the buffer below the threshold it is
\* 0.7 + 0.3 * (marketCap - (threshold - buffer)) / buffer, at least 0.7 and
\* below 1; further below it is the smaller of 0.7 and
\* progress * marketCap / threshold; it always lies between 0 and 1.
C29_CrossingProbability ==
  migrationProbability # NoResult =>
    LET threshold == migrationConfig.migrationThreshold
        buffer    == migrationConfig.preMigrationBuffer
        marketCap == bondingCurveData.marketCap
        progress  == bondingCurveData.progress
        p         == migrationProbability
    IN /\ p.den > 0
       /\ (p.num = p.den) <=> (marketCap >= threshold)
       /\ (threshold - buffer <= marketCap /\ marketCap < threshold) =>
            /\ p.num * 10 * buffer
                 = p.den * (7 * buffer + 3 * (marketCap - (threshold - buffer)))
            /\ 7 * p.den <= 10 * p.num
            /\ p.num < p.den
       /\ (marketCap < threshold - buffer) =>
            p.num * 10 * ProgressScale * threshold
              = p.den * Min(7 * ProgressScale * threshold, 10 * progress * marketCap)
       /\ 0 <= p.num
       /\ p.num <= p.den

\* a probability strictly between 0.7 and 1 was computed inside the buffer
C29_Witness ==
  /\ migrationProbability # NoResult
  /\ migrationConfig.migrationThreshold - migrationConfig.preMigrationBuffer
       < bondingCurveData.marketCap
  /\ bondingCurveData.marketCap < migrationConfig.migrationThreshold
  /\ 7 * migrationProbability.den < 10 * migrationProbability.num
  /\ migrationProbability.num < migrationProbability.den

\* C30: at a fixed positive progress, a larger distance to the threshold never
\* gets a smaller estimated time.
C30_EstimateMonotone ==
  bondingCurveData.progress > 0 =>
    \A d1, d2 \in Distances :
      ( /\ d1 <= d2
        /\ estimatedTimeToMigration[d1] # NoResult
        /\ estimatedTimeToMigration[d2] # NoResult )
      => estimatedTimeToMigration[d1].num * estimatedTimeToMigration[d2].den
           <= estimatedTimeToMigration[d2].num * estimatedTimeToMigration[d1].den

\* two distances whose estimates both exceed the one-second floor and differ
C30_Witness ==
  /\ bondingCurveData.progress > 0
  /\ estimatedTimeToMigration[30] # NoResult
  /\ estimatedTimeToMigration[60] # NoResult
  /\ estimatedTimeToMigration[30].num > 1000 * estimatedTimeToMigration[30].den
  /\ estimatedTimeToMigration[30].num * estimatedTimeToMigration[60].den
       < estimatedTimeToMigration[60].num * estimatedTimeToMigration[30].den

\* C31: for a distance of zero or more and a progress between 0 and 1, zero
\* included, the estimated time is at least the floor of 1000 ms and its
\* quotient has a divisor other than zero.
C31_EstimateFloored ==
  \A d \in Distances :
    (d >= 0 /\ estimatedTimeToMigration[d] # NoResult)
      => /\ estimatedTimeToMigration[d].den > 0
         /\ estimatedTimeToMigration[d].num >= 1000 * estimatedTimeToMigration[d].den

\* C32: the stop-loss exit is inclusive at its boundary: when the price of an
\* ACTIVE position has been read, a sell with the stop-loss reason is started
\* for it exactly when its profit/loss percentage is at or below minus the
\* stop-loss threshold of its strategy.
C32_StopLossInclusive ==
  [][\A m \in MonitorIds :
       ( /\ monitors[m].pc = "price"
         /\ positions[monitors[m].pos].status = "ACTIVE"
         /\ \E read \in ExitReads : priceArrives(m, read) )
       => LET p == monitors[m].pos IN
          ( /\ monitors'[m] # Idle
            /\ monitors'[m].pc = "sell"
            /\ monitors'[m].pos = p
            /\ monitors'[m].reason = "Stop loss triggered" )
          <=> ( ProfitLossPercent(positions'[p])
                  <= 0 - strategies[positions'[p].strategy].stopLossThreshold )]_vars

\* C33: when the quote of a crossing event reports a liquidity below the buy
\* amount of the strategy in use, the handler ends there: no buy is started.
C33_LowLiquiditySkips ==
  [][\A liquidityBNB \in Liquidity :
       ( /\ liquidityBNB < strategies[transitionConfig.defaultStrategy].buyAmount
         /\ swapDataArrives(TRUE, liquidityBNB) )
       => handlers'.buy = handlers.buy]_vars

\* C34: every position ever created is in exactly one of the active set and
\* the completed set: none is in both and none is in neither.
C34_ExactlyOneSet ==
  \A p \in 1..positionCounter :
    MapHas(activePositions, p) # (p \in completedPositions)

\* C35: every position of the completed set is CLOSED with its exit price,
\* exit time and exit reason set, and CLOSED is terminal: the status and the
\* exit fields of a CLOSED position never change and no sell is started for it.
C35_ClosedIsTerminal ==
  [][/\ \A p \in completedPositions' :
          /\ positions'[p].status = "CLOSED"
          /\ positions'[p].exitPrice # NoPrice
          /\ positions'[p].exitTime # NoTime
          /\ positions'[p].exitReason # "none"
     /\ \A p \in 1..positionCounter :
          positions[p].status = "CLOSED"
            => /\ positions'[p].status = "CLOSED"
               /\ positions'[p].exitPrice = positions[p].exitPrice
               /\ positions'[p].exitTime = positions[p].exitTime
               /\ positions'[p].exitReason = positions[p].exitReason
               /\ \A m \in MonitorIds : SellStarts(m) => monitors'[m].pos # p]_vars

\* C36: whatever start() and stop() calls were made, at most one
\* position-monitoring timer is live (the sampling timer of the detector is
\* the one handle checkInterval, set only while the detector is running).
C36_OneTimerEach ==
  /\ monitorTimers <= 1
  /\ checkInterval => mdRunning

\* C37: a crossing event starts at most one handler, whatever initialize(),
\* start() and stop() calls came before it, so that it causes at most one buy
\* and one position.
C37_OneHandlerPerEvent ==
  [][handlers'.swapData + handlers'.buy <= handlers.swapData + handlers.buy + 1]_vars

\* C38: an address that is not monitored has no entry in migrationStatuses or
\* predictiveAnalyses, and while it stays unmonitored no 'statusUpdate' and
\* no 'migrationDetected' event is emitted for it, also when a sampling pass
\* or a confirmation wait for it was in flight at its removal.
C38_RemovedIsGone ==
  [][\A a \in Tokens :
       /\ ~MapHas(Keys(monitoredTokens'), a)
            => /\ migrationStatuses'[a] = NoStatus
               /\ a \notin predictiveAnalyses'
       /\ (~MapHas(Keys(monitoredTokens), a) /\ ~MapHas(Keys(monitoredTokens'), a))
            => /\ statusUpdate'[a] = statusUpdate[a]
               /\ migrationDetected'[a] = migrationDetected[a]]_vars

\* C39: a TokenData whose migrated flag is true when it is registered never
\* produces a crossing event: the flag of an object never goes back to false,
\* a pass starts the detection of a crossing only for an object whose flag is
\* false, and every 'migrationDetected' event comes from such a detection.
C39_MigratedNeverDetected ==
  [][/\ \A i \in 1..Len(tokenObjects) :
          tokenObjects[i].isMigrated => tokenObjects'[i].isMigrated
     /\ \A c \in CheckIds :
          (checks[c].pc # "confirm" /\ checks'[c].pc = "confirm")
            => ~tokenObjects[checks'[c].data].isMigrated
     /\ \A a \in Tokens :
          migrationDetected'[a] # migrationDetected[a]
            => \E c \in CheckIds : /\ checks[c].pc = "confirm"
                                   /\ checks[c].address = a
                                   /\ checks'[c] # checks[c]]_vars

\* the only TokenData ever created was registered as migrated, a sampling
\* pass has valued it above the threshold, and no crossing event was emitted
C39_Witness ==
  /\ Len(tokenObjects) = 1
  /\ tokenObjects[1].isMigrated
  /\ migrationDetected[tokenObjects[1].address] = 0
  /\ statusUpdate[tokenObjects[1].address] # NoTime
  /\ migrationStatuses[tokenObjects[1].address] >= migrationConfig.migrationThreshold

\* C40: no buy is issued and no position is created while the TransitionLogic
\* is not running.
C40_NothingOpenedWhileStopped ==
  [][(handlers'.buy > handlers.buy \/ positionCounter' > positionCounter)
       => tlRunning]_vars

====
